---- MODULE Spec2Model ----
(***************************************************************************)
(* pycommand: CommandBase (option table, usage text, getopt matching,      *)
(* subcommand dispatch) and run_and_exit.                                  *)
(*                                                                         *)
(* A Python string is a sequence of one-character strings, so that         *)
(* indexing, slicing, len() and concatenation are what python computes.   *)
(* The falsy placeholders of an option tuple (False, None, '') and the     *)
(* empty short letter '' are the empty sequence: the code only ever tests  *)
(* them with "if val[0]" / "if val[1]".                                    *)
(***************************************************************************)
EXTENDS Integers, Sequences, FiniteSets, TLC

VARIABLES
    cls,      \* the command class handed to the caller (command_class)
    argv,     \* sys.argv[1:]
    pc,       \* "start" | "ready" | "raised" | "exited"
    cmd,      \* the command instance the caller holds, <<>> before construction
    given,    \* the argument vector cmd was constructed with
    depth,    \* how many registry entries lie between the root command and cmd
    out,      \* what was printed, one entry per print() call
    calls,    \* __init__ and run invocations, in order
    signal,   \* <<>>, or <<status>> of the CommandExit that left the last run()
    exit,     \* <<>>, or <<status>> the process terminated with
    ran,      \* the instance run() was last called on, <<>> before any
    attr      \* outcome of the last cmd.flags.<name> access, <<>> before any

vars == <<cls, argv, pc, cmd, given, depth, out, calls, signal, exit, ran, attr>>

(***************************************************************************)
(* Bounds of the model.                                                    *)
(***************************************************************************)
MaxArgs == 3

(***************************************************************************)
(* Python values.                                                          *)
(***************************************************************************)
None == [tag |-> "None"]
True == [tag |-> "True"]
Str(s) == [tag |-> "str", s |-> s]

Truthy(s) == Len(s) > 0

startswith(s, p) == Len(p) <= Len(s) /\ SubSeq(s, 1, Len(p)) = p

endswith(s, p) == Len(p) <= Len(s) /\ SubSeq(s, Len(s) - Len(p) + 1, Len(s)) = p

\* s.index(c), 1-based; 0 where python raises ValueError
index(s, c) ==
    IF \E i \in 1..Len(s) : s[i] = c
    THEN CHOOSE i \in 1..Len(s) : s[i] = c /\ \A j \in 1..(i - 1) : s[j] # c
    ELSE 0

RECURSIVE Spaces(_)
Spaces(n) == IF n <= 0 THEN <<>> ELSE <<" ">> \o Spaces(n - 1)

\* '{s:{width}}'.format(...): a string is left-aligned and padded with
\* spaces to width, and never cut
FormatWidth(s, width) == s \o Spaces(width - Len(s))

(***************************************************************************)
(* The command classes of the model: subclasses of CommandBase that set    *)
(* its class attributes and inherit __init__ and run.                      *)
(***************************************************************************)
Opt(flag, short, arg, desc) == <<flag, <<short, arg, desc>>>>

ClassNames == {"Main", "Build", "Leaf", "Collide", "Dup"}

usagestr(c) ==
    CASE c = "Main" -> <<"u", "s", "a", "g", "e", ":", " ", "m", "a", "i", "n">>
      [] c = "Build" -> <<"u", "s", "a", "g", "e", ":", " ", "b", "u", "i", "l", "d">>
      [] OTHER -> <<"u", "s", "a", "g", "e", ":", " ", "c", "o", "m", "m", "a", "n", "d", " ", "[", "o", "p", "t", "i", "o", "n", "s", "]">>

description(c) ==
    CASE c = "Main" -> <<"T", "o", "o", "l">>
      [] OTHER -> <<>>

optionList(c) ==
    CASE c = "Main" ->
            << Opt(<<"h", "e", "l", "p">>, <<"h">>, <<>>, <<"s", "h", "o", "w", " ", "h", "e", "l", "p">>),
               Opt(<<"f", "i", "l", "e">>, <<"f">>, <<"<", "p", "a", "t", "h", ">">>, <<"u", "s", "e", " ", "f", "i", "l", "e">>),
               Opt(<<"f", "i", "x">>, <<>>, <<>>, <<"f", "i", "x">>),
               Opt(<<"o", "u", "t">>, <<>>, <<"<", "o", ">">>, <<"t", "o">>) >>
      [] c = "Build" ->
            << Opt(<<"d", "r", "y", "-", "r", "u", "n">>, <<"n">>, <<>>, <<"d", "r", "y">>),
               Opt(<<"c", "o", "p", "y">>, <<"c">>, <<>>, <<"c", "p">>) >>
      [] c = "Leaf" -> <<>>
      [] c = "Collide" ->
            << Opt(<<"a", "l", "l">>, <<"x">>, <<"<", "v", ">">>, <<"A">>),
               Opt(<<"b", "a", "r", "e">>, <<"x">>, <<>>, <<"B">>),
               Opt(<<"c", "u", "t">>, <<"y">>, <<>>, <<"C">>),
               Opt(<<"d", "i", "r">>, <<"y">>, <<"<", "w", ">">>, <<"D">>) >>
      [] c = "Dup" ->
            << Opt(<<"f", "i", "l", "e">>, <<"f">>, <<"<", "p", ">">>, <<"o", "n", "e">>),
               Opt(<<"h", "e", "l", "p">>, <<"h">>, <<>>, <<"H">>),
               Opt(<<"f", "i", "l", "e">>, <<"g">>, <<>>, <<"t", "w", "o">>) >>

usageTextExtra(c) ==
    CASE c = "Leaf" -> <<"S", "e", "e", " ", "d", "o", "c", "s">>
      [] OTHER -> <<>>

\* the registry: subcommand name -> the class it constructs
commands(c) ==
    CASE c = "Main" -> (<<"b", "u", "i", "l", "d">> :> "Build")
      [] c = "Build" -> (<<"d", "e", "e", "p">> :> "Leaf")
      [] OTHER -> [n \in {} |-> "Leaf"]

(***************************************************************************)
(* getopt.getopt of the standard library, as CommandBase.__init__ calls    *)
(* it.  A result is [ok |-> TRUE, opts, args] or, where getopt raises      *)
(* GetoptError, [ok |-> FALSE, msg].                                       *)
(***************************************************************************)
GetoptOk(opts, args) == [ok |-> TRUE, opts |-> opts, args |-> args, msg |-> <<>>]

GetoptError(msg) == [ok |-> FALSE, opts |-> <<>>, args |-> <<>>, msg |-> msg]

RECURSIVE short_has_arg_from(_, _, _)
short_has_arg_from(opt, shortopts, i) ==
    IF i > Len(shortopts)
    THEN [ok |-> FALSE, has_arg |-> FALSE]
    ELSE IF opt = shortopts[i] /\ shortopts[i] # ":"
         THEN [ok |-> TRUE,
               has_arg |-> i + 1 <= Len(shortopts) /\ shortopts[i + 1] = ":"]
         ELSE short_has_arg_from(opt, shortopts, i + 1)

short_has_arg(opt, shortopts) == short_has_arg_from(opt, shortopts, 1)

RECURSIVE do_shorts(_, _, _, _)
do_shorts(opts, optstring, shortopts, args) ==
    IF optstring = <<>>
    THEN GetoptOk(opts, args)
    ELSE LET opt == optstring[1]
             rest == Tail(optstring)
             h == short_has_arg(opt, shortopts)
         IN  IF ~h.ok
             THEN GetoptError(<<"o", "p", "t", "i", "o", "n", " ", "-">> \o <<opt>> \o <<" ", "n", "o", "t", " ", "r", "e", "c", "o", "g", "n", "i", "z", "e", "d">>)
             ELSE IF h.has_arg
             THEN IF rest = <<>>
                  THEN IF args = <<>>
                       THEN GetoptError(<<"o", "p", "t", "i", "o", "n", " ", "-">> \o <<opt>>
                                        \o <<" ", "r", "e", "q", "u", "i", "r", "e", "s", " ", "a", "r", "g", "u", "m", "e", "n", "t">>)
                       ELSE GetoptOk(Append(opts, <<<<"-", opt>>, args[1]>>),
                                     Tail(args))
                  ELSE GetoptOk(Append(opts, <<<<"-", opt>>, rest>>), args)
             ELSE do_shorts(Append(opts, <<<<"-", opt>>, <<>>>>), rest,
                            shortopts, args)

\* [ok, has_arg, opt] or a GetoptError
long_has_args(opt, longopts) ==
    LET possibilities == SelectSeq(longopts, LAMBDA o : startswith(o, opt))
        isIn(x) == \E i \in 1..Len(possibilities) : possibilities[i] = x
    IN  IF possibilities = <<>>
        THEN [ok |-> FALSE, has_arg |-> FALSE, opt |-> opt,
              msg |-> <<"o", "p", "t", "i", "o", "n", " ", "-", "-">> \o opt \o <<" ", "n", "o", "t", " ", "r", "e", "c", "o", "g", "n", "i", "z", "e", "d">>]
        ELSE IF isIn(opt)
        THEN [ok |-> TRUE, has_arg |-> FALSE, opt |-> opt, msg |-> <<>>]
        ELSE IF isIn(opt \o <<"=">>)
        THEN [ok |-> TRUE, has_arg |-> TRUE, opt |-> opt, msg |-> <<>>]
        ELSE IF Len(possibilities) > 1
        THEN [ok |-> FALSE, has_arg |-> FALSE, opt |-> opt,
              msg |-> <<"o", "p", "t", "i", "o", "n", " ", "-", "-">> \o opt \o <<" ", "n", "o", "t", " ", "a", " ", "u", "n", "i", "q", "u", "e", " ", "p", "r", "e", "f", "i", "x">>]
        ELSE LET unique_match == possibilities[1]
                 has_arg == endswith(unique_match, <<"=">>)
             IN  [ok |-> TRUE, has_arg |-> has_arg,
                  opt |-> IF has_arg
                          THEN SubSeq(unique_match, 1, Len(unique_match) - 1)
                          ELSE unique_match,
                  msg |-> <<>>]

\* optarg is <<>> for python's None and <<value>> otherwise
do_longs(opts, opt0, longopts, args) ==
    LET i == index(opt0, "=")
        opt1 == IF i = 0 THEN opt0 ELSE SubSeq(opt0, 1, i - 1)
        optarg == IF i = 0 THEN <<>> ELSE <<SubSeq(opt0, i + 1, Len(opt0))>>
        h == long_has_args(opt1, longopts)
    IN  IF ~h.ok
        THEN GetoptError(h.msg)
        ELSE IF h.has_arg
        THEN IF optarg = <<>>
             THEN IF args = <<>>
                  THEN GetoptError(<<"o", "p", "t", "i", "o", "n", " ", "-", "-">> \o h.opt
                                   \o <<" ", "r", "e", "q", "u", "i", "r", "e", "s", " ", "a", "r", "g", "u", "m", "e", "n", "t">>)
                  ELSE GetoptOk(Append(opts, <<<<"-", "-">> \o h.opt, args[1]>>),
                                Tail(args))
             ELSE GetoptOk(Append(opts, <<<<"-", "-">> \o h.opt, optarg[1]>>),
                           args)
        ELSE IF optarg # <<>>
        THEN GetoptError(<<"o", "p", "t", "i", "o", "n", " ", "-", "-">> \o h.opt
                         \o <<" ", "m", "u", "s", "t", " ", "n", "o", "t", " ", "h", "a", "v", "e", " ", "a", "n", " ", "a", "r", "g", "u", "m", "e", "n", "t">>)
        ELSE GetoptOk(Append(opts, <<<<"-", "-">> \o h.opt, <<>>>>), args)

RECURSIVE getopt_loop(_, _, _, _)
getopt_loop(opts, args, shortopts, longopts) ==
    IF args # <<>> /\ startswith(args[1], <<"-">>) /\ args[1] # <<"-">>
    THEN IF args[1] = <<"-", "-">>
         THEN GetoptOk(opts, Tail(args))
         ELSE LET r == IF startswith(args[1], <<"-", "-">>)
                       THEN do_longs(opts, SubSeq(args[1], 3, Len(args[1])),
                                     longopts, Tail(args))
                       ELSE do_shorts(opts, Tail(args[1]), shortopts,
                                      Tail(args))
              IN  IF r.ok
                  THEN getopt_loop(r.opts, r.args, shortopts, longopts)
                  ELSE r
    ELSE GetoptOk(opts, args)

getopt(args, shortopts, longopts) == getopt_loop(<<>>, args, shortopts, longopts)

(***************************************************************************)
(* CommandBase.__init__                                                    *)
(***************************************************************************)

\* OrderedDict(pairs): a key keeps the position of its first pair and the
\* value of its last pair
RECURSIVE OrderedDictFrom(_, _)
OrderedDictFrom(od, pairs) ==
    IF pairs = <<>>
    THEN od
    ELSE LET key == pairs[1][1]
             val == pairs[1][2]
         IN  IF \E i \in 1..Len(od) : od[i][1] = key
             THEN OrderedDictFrom(
                      [i \in 1..Len(od) |->
                          IF od[i][1] = key THEN <<key, val>> ELSE od[i]],
                      Tail(pairs))
             ELSE OrderedDictFrom(Append(od, <<key, val>>), Tail(pairs))

\* Variant: a repeated key keeps the value of its first pair.
RECURSIVE OrderedDictFirstWinsFrom(_, _)
OrderedDictFirstWinsFrom(od, pairs) ==
    IF pairs = <<>>
    THEN od
    ELSE IF \E i \in 1..Len(od) : od[i][1] = pairs[1][1]
         THEN OrderedDictFirstWinsFrom(od, Tail(pairs))
         ELSE OrderedDictFirstWinsFrom(Append(od, pairs[1]), Tail(pairs))

OrderedDictFirstWins(pairs) == OrderedDictFirstWinsFrom(<<>>, pairs)

OrderedDict(pairs) == OrderedDictFrom(<<>>, pairs)

Keys(od) == {od[i][1] : i \in 1..Len(od)}

\* Variant: the placeholder is counted once.
OptLenOnce(flag, val) ==
    Len(flag) + 2
    + (IF Truthy(val[1]) THEN 4 ELSE 0)
    + (IF Truthy(val[2]) THEN Len(val[2]) + 1 ELSE 0)

\* the width estimate of one option, lines 124-127
OptLen(flag, val) ==
    Len(flag) + 2
    + (IF Truthy(val[1]) THEN 4 ELSE 0)
    + (IF Truthy(val[1]) /\ Truthy(val[2]) THEN Len(val[2]) + 1 ELSE 0)
    + (IF Truthy(val[2]) THEN Len(val[2]) + 1 ELSE 0)

RECURSIVE PaddingFrom(_, _, _)
PaddingFrom(od, i, padding) ==
    IF i > Len(od)
    THEN padding
    ELSE LET optlen == OptLen(od[i][1], od[i][2])
         IN  PaddingFrom(od, i + 1, IF optlen > padding THEN optlen ELSE padding)

Padding(od) == PaddingFrom(od, 1, 0)

\* the entry of longopts for one option
LongSpec(flag, val) == IF Truthy(val[2]) THEN flag \o <<"=">> ELSE flag

\* Variant: the colon of a value-taking option is left out.
ShortSpecNoColon(val) == IF Truthy(val[1]) THEN val[1] ELSE <<>>

\* what one option adds to shortopts
ShortSpec(val) ==
    IF Truthy(val[1])
    THEN IF Truthy(val[2]) THEN val[1] \o <<":">> ELSE val[1]
    ELSE <<>>

\* the text of one option before its description
OptLine(flag, val) ==
    LET flagstring_long ==
            IF Truthy(val[2]) THEN flag \o <<"=">> \o val[2] ELSE flag
        flagstring_short ==
            IF Truthy(val[2]) THEN val[1] \o <<" ">> \o val[2] ELSE val[1]
    IN  IF Truthy(val[1])
        THEN <<"-">> \o flagstring_short \o <<",", " ", "-", "-">> \o flagstring_long
        ELSE <<"-", "-">> \o flagstring_long

\* one line of opthelp
OptHelpLine(flag, val, padding) ==
    FormatWidth(OptLine(flag, val), padding) \o <<" ", " ">> \o val[3] \o <<"\n">>

\* the second loop over optionList: longopts, shortopts, flags, opthelp
RECURSIVE BuildFrom(_, _, _, _)
BuildFrom(od, i, padding, st) ==
    IF i > Len(od)
    THEN st
    ELSE LET flag == od[i][1]
             val == od[i][2]
         IN  BuildFrom(od, i + 1, padding,
                [longopts |-> Append(st.longopts, LongSpec(flag, val)),
                 shortopts |-> st.shortopts \o ShortSpec(val),
                 flags |-> [f \in DOMAIN st.flags \cup {flag} |->
                               IF f = flag THEN None ELSE st.flags[f]],
                 opthelp |-> st.opthelp \o OptHelpLine(flag, val, padding)])

Build(od, padding) ==
    BuildFrom(od, 1, padding,
              [longopts |-> <<>>, shortopts |-> <<>>,
               flags |-> [f \in {} |-> None], opthelp |-> <<>>])

UsageText(c, od, opthelp) ==
    usagestr(c)
    \o (IF Truthy(description(c)) THEN <<"\n", "\n">> \o description(c) ELSE <<>>)
    \o (IF od # <<>> THEN <<"\n", "\n", "O", "p", "t", "i", "o", "n", "s", ":", "\n">> \o opthelp ELSE <<>>)
    \o (IF Truthy(usageTextExtra(c)) THEN <<"\n">> \o usageTextExtra(c) ELSE <<>>)

\* Variant: single-dash options are not compared.
MatchOneLongOnly(flags, opt, flag, val) ==
    IF opt[1][2] = "-" /\ SubSeq(opt[1], 3, Len(opt[1])) = flag
    THEN [flags EXCEPT ![flag] = IF Truthy(val[2]) THEN Str(opt[2]) ELSE True]
    ELSE flags

\* the body of the inner matching loop for one declared option
MatchOne(flags, opt, flag, val) ==
    IF opt[1][2] # "-"
    THEN IF <<opt[1][2]>> = val[1]
         THEN [flags EXCEPT ![flag] = IF Truthy(val[2]) THEN Str(opt[2]) ELSE True]
         ELSE flags
    ELSE IF SubSeq(opt[1], 3, Len(opt[1])) = flag
         THEN [flags EXCEPT ![flag] = IF Truthy(val[2]) THEN Str(opt[2]) ELSE True]
         ELSE flags

\* the inner loop: every declared option is compared with opt, in order
RECURSIVE MatchOptFrom(_, _, _, _)
MatchOptFrom(flags, od, i, opt) ==
    IF i > Len(od)
    THEN flags
    ELSE MatchOptFrom(MatchOne(flags, opt, od[i][1], od[i][2]), od, i + 1, opt)

\* Variant: the scan stops at the first declared option that matches.
RECURSIVE MatchOptFirstOnlyFrom(_, _, _, _)
MatchOptFirstOnlyFrom(flags, od, i, opt) ==
    IF i > Len(od)
    THEN flags
    ELSE LET f == MatchOne(flags, opt, od[i][1], od[i][2])
         IN  IF f # flags THEN f ELSE MatchOptFirstOnlyFrom(flags, od, i + 1, opt)

MatchOptFirstOnly(flags, od, opt) == MatchOptFirstOnlyFrom(flags, od, 1, opt)

MatchOpt(flags, od, opt) == MatchOptFrom(flags, od, 1, opt)

RECURSIVE MatchAll(_, _, _)
MatchAll(flags, od, opts) ==
    IF opts = <<>>
    THEN flags
    ELSE MatchAll(MatchOpt(flags, od, opts[1]), od, Tail(opts))

\* the instance when getopt raised: error is set and __init__ returns
OnGetoptError(self, msg) == [self EXCEPT !.error = <<msg>>]

\* the instance after a successful getopt
OnGetoptOk(self, opts, args) ==
    [self EXCEPT !.args = args,
                 !.flags = MatchAll(self.flags, self.optionList, opts),
                 !.flagsType = "dictobject"]

\* Variant: on GetoptError the positionals fall back to the raw vector.
ParseKeepsArgv(self, av, shortopts, longopts) ==
    LET r == getopt(av, shortopts, longopts)
    IN  IF r.ok
        THEN OnGetoptOk(self, r.opts, r.args)
        ELSE [OnGetoptError(self, r.msg) EXCEPT !.args = av]

\* "Parse arguments and options": the try/except around getopt and what
\* follows it
Parse(self, av, shortopts, longopts) ==
    LET r == getopt(av, shortopts, longopts)
    IN  IF r.ok THEN OnGetoptOk(self, r.opts, r.args) ELSE OnGetoptError(self, r.msg)

CommandInit(c, av) ==
    LET od == OrderedDict(optionList(c))
        padding == Padding(od)
        b == Build(od, padding)
        self == [cls |-> c,
                 error |-> <<>>,
                 flags |-> b.flags,
                 flagsType |-> "dict",
                 args |-> <<>>,
                 parentFlags |-> <<>>,
                 usage |-> UsageText(c, od, b.opthelp),
                 optionList |-> od]
    IN  Parse(self, av, b.shortopts, b.longopts)

(***************************************************************************)
(* dictobject.__getattr__, reached through cmd.flags.<name>.  Python calls *)
(* __getattr__ only when the normal lookup finds no attribute, so a name   *)
(* of the built-in dict type yields that attribute of dict.                *)
(***************************************************************************)
DictAttrs == {<<"c", "o", "p", "y">>}

AttrResult(kind, name, value) == [kind |-> kind, name |-> name, value |-> value]

\* the access recorded together with the instance it was made on
Access(self, r) == [self |-> self, kind |-> r.kind, name |-> r.name, value |-> r.value]

\* Variant: an unknown name yields None, as dict.get does.
dictobject_getattr_lenient(flags, name) ==
    AttrResult("value", name, IF name \in DOMAIN flags THEN flags[name] ELSE None)

dictobject_getattr(flags, name) ==
    IF name \in DOMAIN flags
    THEN AttrResult("value", name, flags[name])
    ELSE AttrResult("OptionError", name, None)

FlagsAttr(self, name) ==
    IF name \in DictAttrs
    THEN AttrResult("dict attribute", name, None)
    ELSE IF self.flagsType = "dictobject"
    THEN dictobject_getattr(self.flags, name)
    ELSE AttrResult("AttributeError", name, None)

(***************************************************************************)
(* CommandBase.run                                                         *)
(***************************************************************************)
Raise(status, printed) ==
    [kind |-> "raise", status |-> status, printed |-> printed,
     entry |-> <<>>, argv |-> <<>>]

Invoke(entry, av) ==
    [kind |-> "invoke", status |-> 0, printed |-> <<>>,
     entry |-> entry, argv |-> av]

\* Variant: the subcommand gets all positionals, its own name included.
runKeepsName(self) ==
    IF self.args = <<>>
    THEN Raise(2, self.usage)
    ELSE IF self.args[1] \in DOMAIN commands(self.cls)
    THEN Invoke(self.args[1], self.args)
    ELSE Raise(1, <<"e", "r", "r", "o", "r", ":", " ", "c", "o", "m", "m", "a", "n", "d", " ">> \o self.args[1] \o <<" ", "d", "o", "e", "s", " ", "n", "o", "t", " ", "e", "x", "i", "s", "t">>)

run(self) ==
    IF self.args = <<>>
    THEN Raise(2, self.usage)
    ELSE IF self.args[1] \in DOMAIN commands(self.cls)
    THEN Invoke(self.args[1], Tail(self.args))
    ELSE Raise(1, <<"e", "r", "r", "o", "r", ":", " ", "c", "o", "m", "m", "a", "n", "d", " ">> \o self.args[1] \o <<" ", "d", "o", "e", "s", " ", "n", "o", "t", " ", "e", "x", "i", "s", "t">>)

registerParentFlag(self, optionName, value) ==
    [self EXCEPT !.parentFlags =
        [n \in DOMAIN self.parentFlags \cup {optionName} |->
            IF n = optionName THEN value ELSE self.parentFlags[n]]]

InitCall(c, av) == [fn |-> "__init__", cls |-> c, argv |-> av]

RunCall(c) == [fn |-> "run", cls |-> c, argv |-> <<>>]

(***************************************************************************)
(* Inputs.                                                                 *)
(***************************************************************************)
Tokens(c) ==
    CASE c = "Main" ->
            { <<"-", "h">>, <<"-", "f">>, <<"-", "-", "f", "i", "l", "e">>, <<"-", "-", "f", "i", "l", "e", "=", "v">>, <<"v">>, <<"-", "-", "n", "o", "p", "e">>,
              <<"b", "u", "i", "l", "d">>, <<"d", "e", "e", "p">> }
      [] c = "Build" ->
            { <<"-", "n">>, <<"-", "-", "c", "o", "p", "y">>, <<"-", "-", "d", "r", "y">>, <<"-", "z">>, <<"d", "e", "e", "p">> }
      [] c = "Leaf" ->
            { <<"a">>, <<"-", "q">>, <<"-", "-">> }
      [] c = "Collide" ->
            { <<"-", "x">>, <<"-", "y">>, <<"v">>, <<"-", "-", "a", "l", "l", "=", "v">>, <<"-", "-", "a", "l", "l">>, <<"-", "-", "b", "a", "r", "e">> }
      [] c = "Dup" ->
            { <<"-", "f">>, <<"-", "g">>, <<"-", "h">>, <<"-", "-", "f", "i", "l", "e">>, <<"-", "-", "f", "i", "l", "e", "=", "v">>, <<"v">> }

RECURSIVE Vectors(_, _)
Vectors(S, n) ==
    IF n = 0
    THEN {<<>>}
    ELSE LET shorter == Vectors(S, n - 1)
         IN  shorter \cup {Append(v, t) : v \in {w \in shorter : Len(w) = n - 1},
                                          t \in S}

AttrNames(self) == Keys(self.optionList) \cup DictAttrs \cup {<<"n", "o", "p", "e">>}

ParentFlagNames == {<<"v", "e", "r", "s", "i", "o", "n">>}

ParentFlagValues == {True}

(***************************************************************************)
(* The state machine: a caller that either hands the class to              *)
(* run_and_exit, or constructs the command itself and uses its             *)
(* programmatic surface.                                                   *)
(***************************************************************************)
Init ==
    /\ cls \in ClassNames
    /\ argv \in Vectors(Tokens(cls), MaxArgs)
    /\ pc = "start"
    /\ cmd = <<>>
    /\ given = <<>>
    /\ depth = 0
    /\ out = <<>>
    /\ calls = <<>>
    /\ signal = <<>>
    /\ exit = <<>>
    /\ ran = <<>>
    /\ attr = <<>>

\* cmd = command_class(argv), by the caller itself
Construct ==
    /\ pc = "start"
    /\ cmd' = CommandInit(cls, argv)
    /\ given' = argv
    /\ calls' = Append(calls, InitCall(cls, argv))
    /\ pc' = "ready"
    /\ UNCHANGED <<cls, argv, depth, out, signal, exit, ran, attr>>

\* cmd.run() by the caller, which catches CommandExit and, when run()
\* returns the subcommand instance, goes on with that instance
CallRun ==
    /\ pc = "ready"
    /\ ran' = cmd
    /\ LET o == run(cmd)
       IN  IF o.kind = "raise"
           THEN /\ out' = Append(out, o.printed)
                /\ signal' = <<o.status>>
                /\ calls' = Append(calls, RunCall(cmd.cls))
                /\ pc' = "raised"
                /\ UNCHANGED <<cmd, given, depth>>
           ELSE LET sub == commands(cmd.cls)[o.entry]
                IN  /\ cmd' = CommandInit(sub, o.argv)
                    /\ given' = o.argv
                    /\ depth' = depth + 1
                    /\ calls' = calls \o <<RunCall(cmd.cls), InitCall(sub, o.argv)>>
                    /\ signal' = <<>>
                    /\ UNCHANGED <<out, pc>>
    /\ UNCHANGED <<cls, argv, exit, attr>>

\* cmd.flags.<name>
GetFlag ==
    /\ pc = "ready"
    /\ \E name \in AttrNames(cmd) : attr' = Access(cmd, FlagsAttr(cmd, name))
    /\ UNCHANGED <<cls, argv, pc, cmd, given, depth, out, calls, signal, exit, ran>>

\* cmd.registerParentFlag(optionName, value)
RegisterParentFlag ==
    /\ pc = "ready"
    /\ \E n \in ParentFlagNames, v \in ParentFlagValues :
          cmd' = registerParentFlag(cmd, n, v)
    /\ UNCHANGED <<cls, argv, pc, given, depth, out, calls, signal, exit, ran,
                   attr>>

\* what the interpreter does with sys.exit(value) for run()'s return value:
\* an object that is neither None nor an integer is printed to stderr and
\* the status is 1
SysExitStatusOfObject == 1

\* the status of an interpreter ended by an exception nobody caught
UncaughtExceptionStatus == 1

\* Variant: the test is inverted.
ErrorIsSetInverted(c) == c.error = <<>>

\* "if cmd.error:" (a GetoptError object is truthy)
ErrorIsSet(c) == c.error # <<>>

\* run_and_exit(command_class), from the call to the end of the process
RunAndExit ==
    /\ pc = "start"
    /\ LET c == CommandInit(cls, argv)
           o == run(c)
       IN  /\ cmd' = c
           /\ given' = argv
           /\ IF ErrorIsSet(c)
              THEN /\ out' = Append(out, <<"e", "r", "r", "o", "r", ":", " ">>
                                         \o (IF c.error = <<>> THEN <<"N", "o", "n", "e">>
                                                              ELSE c.error[1]))
                   /\ calls' = Append(calls, InitCall(cls, argv))
                   /\ signal' = <<>>
                   /\ exit' = <<1>>
                   /\ ran' = ran
              ELSE IF o.kind = "raise"
              THEN /\ out' = Append(out, o.printed)
                   /\ calls' = calls \o <<InitCall(cls, argv), RunCall(cls)>>
                   /\ signal' = <<o.status>>
                   /\ exit' = <<UncaughtExceptionStatus>>
                   /\ ran' = c
              ELSE /\ out' = out
                   /\ calls' = calls \o <<InitCall(cls, argv), RunCall(cls),
                                          InitCall(commands(cls)[o.entry], o.argv)>>
                   /\ signal' = <<>>
                   /\ exit' = <<SysExitStatusOfObject>>
                   /\ ran' = c
    /\ pc' = "exited"
    /\ UNCHANGED <<cls, argv, depth, attr>>

Next ==
    \/ Construct
    \/ CallRun
    \/ GetFlag
    \/ RegisterParentFlag
    \/ RunAndExit

Spec == Init /\ [][Next]_vars

(***************************************************************************)
(* Properties.                                                             *)
(***************************************************************************)
Constructed == cmd # <<>>

AllUnset(flags) == \A f \in DOMAIN flags : flags[f] = None

ShortSpelling(val) == <<"-">> \o val[1]

LongSpelling(flag) == <<"-", "-">> \o flag

\* the pair p spells the declared option (flag, val)
Spells(p, flag, val) ==
    \/ Truthy(val[1]) /\ p[1] = ShortSpelling(val)
    \/ p[1] = LongSpelling(flag)

\* the (rawOption, rawValue) pairs the tokenizer returns for av against
\* the table of self
TokenizerPairs(self, av) ==
    LET b == Build(self.optionList, Padding(self.optionList))
    IN  getopt(av, b.shortopts, b.longopts).opts

\* the index of the last run() in calls, and what was constructed since
LastRunAt ==
    CHOOSE i \in 1..Len(calls) :
        calls[i].fn = "run" /\ \A j \in (i + 1)..Len(calls) : calls[j].fn # "run"

InvokedSinceRun == SubSeq(calls, LastRunAt + 1, Len(calls))

\* C1: run() takes exactly one of three outcomes, decided in order from
\* args and the registry: no positionals - the usage text is printed,
\* CommandExit(2) is raised and no registry entry is invoked; args[0] a
\* registry key - that entry is invoked exactly once with exactly args[1:],
\* its result is returned and nothing is raised; otherwise 'command ... does
\* not exist' is printed, CommandExit(1) is raised and no entry is invoked.
\* At every nesting depth.
C1_DispatchOutcome ==
    ran # <<>> =>
        /\ calls[LastRunAt] = RunCall(ran.cls)
        /\ IF ran.args = <<>>
           THEN /\ signal = <<2>>
                /\ out = <<ran.usage>>
                /\ InvokedSinceRun = <<>>
           ELSE IF ran.args[1] \in DOMAIN commands(ran.cls)
           THEN /\ signal = <<>>
                /\ out = <<>>
                /\ InvokedSinceRun =
                      <<InitCall(commands(ran.cls)[ran.args[1]],
                                 SubSeq(ran.args, 2, Len(ran.args)))>>
                /\ pc = "ready" =>
                      /\ cmd.cls = commands(ran.cls)[ran.args[1]]
                      /\ given = SubSeq(ran.args, 2, Len(ran.args))
           ELSE /\ signal = <<1>>
                /\ out = <<<<"e", "r", "r", "o", "r", ":", " ", "c", "o", "m", "m", "a", "n", "d", " ">> \o ran.args[1]
                           \o <<" ", "d", "o", "e", "s", " ", "n", "o", "t", " ", "e", "x", "i", "s", "t">>>>
                /\ InvokedSinceRun = <<>>

\* two registry entries deep, the innermost command shows its usage
C1_Witness ==
    /\ depth = 2
    /\ pc = "raised"
    /\ ran # <<>>
    /\ ran.cls = "Leaf"
    /\ signal = <<2>>
    /\ calls[1] = InitCall("Main", <<<<"b", "u", "i", "l", "d">>, <<"d", "e", "e", "p">>>>)

\* C2: a CommandExit raised by run() is caught by run_and_exit, which ends
\* the process with the status the signal carries: 2 with no positional
\* arguments, 1 when the first positional is no known subcommand.
C2_ExitCarriesSignalStatus ==
    (pc = "exited" /\ cmd.error = <<>>) =>
        /\ signal # <<>> => exit = signal
        /\ cmd.args = <<>> => exit = <<2>>
        /\ (cmd.args # <<>> /\ cmd.args[1] \notin DOMAIN commands(cmd.cls)) =>
              exit = <<1>>

RECURSIVE OffendingInOptionPosition(_, _)
\* av holds, after complete declared options only, an undeclared option or
\* a value-taking option with no value
OffendingInOptionPosition(od, av) ==
    IF av = <<>>
    THEN FALSE
    ELSE LET t == av[1]
             eq == index(t, "=")
             name == SubSeq(t, 3, IF eq = 0 THEN Len(t) ELSE eq - 1)
             isLong == startswith(t, <<"-", "-">>) /\ Len(t) > 2
             isShort == startswith(t, <<"-">>) /\ ~startswith(t, <<"-", "-">>)
                        /\ Len(t) > 1
             spelled == {i \in 1..Len(od) :
                            \/ t = LongSpelling(od[i][1])
                            \/ Truthy(od[i][2][1]) /\ t = ShortSpelling(od[i][2])}
             first == CHOOSE i \in spelled : \A j \in spelled : i <= j
             undeclared ==
                 \/ isLong /\ \A i \in 1..Len(od) : ~startswith(od[i][1], name)
                 \/ isShort /\ \A i \in 1..Len(od) : od[i][2][1] # <<t[2]>>
             longWithValue ==
                 \E i \in 1..Len(od) :
                     /\ Truthy(od[i][2][2])
                     /\ startswith(t, LongSpelling(od[i][1]) \o <<"=">>)
         IN  IF undeclared
             THEN TRUE
             ELSE IF longWithValue
             THEN OffendingInOptionPosition(od, Tail(av))
             ELSE IF spelled # {}
             THEN IF Truthy(od[first][2][2])
                  THEN IF Len(av) = 1
                       THEN TRUE
                       ELSE OffendingInOptionPosition(od, SubSeq(av, 3, Len(av)))
                  ELSE OffendingInOptionPosition(od, Tail(av))
             ELSE FALSE

\* C3: when construction through run_and_exit produced a parse error,
\* run_and_exit prints 'error: <message>' and ends the process with status
\* 1, and run() is never invoked: nothing else is printed, no signal is
\* raised and no subcommand is constructed, whatever followed the bad option.
C3_ParseErrorExits1 ==
    (pc = "exited"
        /\ (cmd.error # <<>> \/ OffendingInOptionPosition(cmd.optionList, argv))) =>
        /\ cmd.error # <<>>
        /\ exit = <<1>>
        /\ out = <<<<"e", "r", "r", "o", "r", ":", " ">> \o cmd.error[1]>>
        /\ calls = <<InitCall(cls, argv)>>
        /\ ran = <<>>
        /\ signal = <<>>

\* an undeclared option followed by a known subcommand name
C3_Witness ==
    /\ pc = "exited"
    /\ cls = "Main"
    /\ argv = <<<<"-", "-", "n", "o", "p", "e">>, <<"b", "u", "i", "l", "d">>>>
    /\ exit = <<1>>
    /\ out = <<<<"e", "r", "r", "o", "r", ":", " ", "o", "p", "t", "i", "o", "n", " ", "-", "-", "n", "o", "p", "e", " ", "n", "o", "t", " ", "r", "e", "c", "o", "g", "n", "i", "z", "e", "d">>>>

IsPositionals(rest) == rest = <<>> \/ ~startswith(rest[1], <<"-">>)

\* the ways av is one of the three spellings of (flag, val) with a value v,
\* followed by rest
ValueForms(flag, val, av) ==
    {[v |-> SubSeq(av[1], Len(flag) + 4, Len(av[1])), rest |-> Tail(av)] :
        x \in IF av # <<>> /\ startswith(av[1], LongSpelling(flag) \o <<"=">>)
              THEN {1} ELSE {}}
    \cup
    {[v |-> av[2], rest |-> SubSeq(av, 3, Len(av))] :
        x \in IF Len(av) >= 2 /\ av[1] \in {LongSpelling(flag), ShortSpelling(val)}
              THEN {1} ELSE {}}

OnlySet(od, flag, value) ==
    [f \in Keys(od) |-> IF f = flag THEN value ELSE None]

ShortIsUnique(od, i) ==
    \A j \in 1..Len(od) : j # i => od[j][2][1] # od[i][2][1]

\* C4 as stated: for every declared value-taking option with a long name
\* and a short letter x, and every value v, ["--name=v"], ["--name", "v"]
\* and ["-x", "v"] parse without error to the same FlagMap: flags[name] is
\* the string v, every other declared flag is unset, same positionals.
C4_ThreeSpellings_Original ==
    Constructed =>
        \A i \in 1..Len(cmd.optionList) :
            LET flag == cmd.optionList[i][1]
                val == cmd.optionList[i][2]
            IN  (Truthy(val[1]) /\ Truthy(val[2])) =>
                    \A m \in ValueForms(flag, val, given) :
                        IsPositionals(m.rest) =>
                            /\ cmd.error = <<>>
                            /\ cmd.flags = OnlySet(cmd.optionList, flag, Str(m.v))
                            /\ cmd.args = m.rest

\* C4 amended: the same, for an option whose short letter no other declared
\* option has.
C4_ThreeSpellings ==
    Constructed =>
        \A i \in 1..Len(cmd.optionList) :
            LET flag == cmd.optionList[i][1]
                val == cmd.optionList[i][2]
            IN  (Truthy(val[1]) /\ Truthy(val[2])
                    /\ ShortIsUnique(cmd.optionList, i)) =>
                    \A m \in ValueForms(flag, val, given) :
                        IsPositionals(m.rest) =>
                            /\ cmd.error = <<>>
                            /\ cmd.flags = OnlySet(cmd.optionList, flag, Str(m.v))
                            /\ cmd.args = m.rest

\* the short spelling with its value and a positional after it
C4_Witness ==
    /\ Constructed
    /\ cmd.cls = "Main"
    /\ given = <<<<"-", "f">>, <<"v">>, <<"b", "u", "i", "l", "d">>>>
    /\ cmd.flags[<<"f", "i", "l", "e">>] = Str(<<"v">>)
    /\ cmd.args = <<<<"b", "u", "i", "l", "d">>>>

\* C5: on a parse without error, a declared boolean option is True if it
\* appears on the command line in its short or long spelling and unset if
\* it does not; never false, and no flag that was not supplied is anything
\* but unset.
C5_BooleanFlags ==
    (Constructed /\ cmd.error = <<>>) =>
        LET pairs == TokenizerPairs(cmd, given)
        IN  \A i \in 1..Len(cmd.optionList) :
                LET flag == cmd.optionList[i][1]
                    val == cmd.optionList[i][2]
                    appears == \E k \in 1..Len(pairs) : Spells(pairs[k], flag, val)
                    leads == /\ given # <<>>
                             /\ \/ given[1] = LongSpelling(flag)
                                \/ Truthy(val[1]) /\ given[1] = ShortSpelling(val)
                IN  /\ ~Truthy(val[2]) =>
                          cmd.flags[flag] = IF appears THEN True ELSE None
                    /\ ~appears => cmd.flags[flag] = None
                    /\ (leads /\ ~Truthy(val[2])) => cmd.flags[flag] = True

\* the short spelling sets its flag, the other boolean stays unset
C5_Witness ==
    /\ Constructed
    /\ cmd.cls = "Main"
    /\ cmd.error = <<>>
    /\ given = <<<<"-", "h">>, <<"v">>>>
    /\ cmd.flags[<<"h", "e", "l", "p">>] = True
    /\ cmd.flags[<<"f", "i", "x">>] = None

\* C6: an undeclared option, or a value-taking option with no value, in
\* option position gives a populated parse error, and no matching was
\* attempted: every declared flag is still unset and the positionals are
\* empty, even when valid options with values precede the offending one.
C6_ErrorLeavesNothingSet ==
    Constructed =>
        /\ OffendingInOptionPosition(cmd.optionList, given) => cmd.error # <<>>
        /\ cmd.error # <<>> =>
              /\ DOMAIN cmd.flags = Keys(cmd.optionList)
              /\ AllUnset(cmd.flags)
              /\ cmd.args = <<>>

\* a valid option with its value precedes the undeclared one
C6_Witness ==
    /\ Constructed
    /\ cmd.cls = "Main"
    /\ given = <<<<"-", "f">>, <<"v">>, <<"-", "-", "n", "o", "p", "e">>>>
    /\ cmd.error = <<<<"o", "p", "t", "i", "o", "n", " ", "-", "-", "n", "o", "p", "e", " ", "n", "o", "t", " ", "r", "e", "c", "o", "g", "n", "i", "z", "e", "d">>>>
    /\ cmd.flags[<<"f", "i", "l", "e">>] = None
    /\ cmd.args = <<>>

\* C7 as stated: cmd.flags.<name> raises OptionError for an undeclared
\* name, on any constructed instance, one with a parse error included, and
\* returns the flag's current value for a declared name.
C7_FlagAttribute_Original ==
    attr # <<>> =>
        IF attr.name \in Keys(attr.self.optionList)
        THEN attr.kind = "value" /\ attr.value = attr.self.flags[attr.name]
        ELSE attr.kind = "OptionError"

\* C7 amended: on an instance constructed without a parse error, and for a
\* name that is no attribute of the built-in dict, an undeclared name raises
\* OptionError and a declared name returns the flag's current value.  On an
\* instance with a parse error flags is a plain dict, and any such name,
\* declared or not, raises a plain AttributeError.  A name of a dict
\* attribute yields that attribute on both.
C7_FlagAttribute ==
    attr # <<>> =>
        IF attr.name \in DictAttrs
        THEN attr.kind = "dict attribute"
        ELSE IF attr.self.error # <<>>
        THEN attr.kind = "AttributeError"
        ELSE IF attr.name \in Keys(attr.self.optionList)
        THEN attr.kind = "value" /\ attr.value = attr.self.flags[attr.name]
        ELSE attr.kind = "OptionError"

\* an undeclared name on a command that parsed without error
C7_Witness ==
    /\ attr # <<>>
    /\ attr.self.error = <<>>
    /\ attr.name = <<"n", "o", "p", "e">>
    /\ attr.kind = "OptionError"

\* the pairs of a declaration whose key did not occur before
FirstOccurrences(pairs) ==
    SelectSeq([i \in 1..Len(pairs) |-> <<i, pairs[i]>>],
              LAMBDA e : \A j \in 1..(e[1] - 1) : pairs[j][1] # e[2][1])

LastIndexOf(pairs, key) ==
    CHOOSE i \in 1..Len(pairs) :
        pairs[i][1] = key /\ \A j \in (i + 1)..Len(pairs) : pairs[j][1] # key

\* C8 as stated: with two declarations of one flag name, the table has one
\* entry for the name, at the position of the first declaration, carrying
\* the short letter, placeholder and description of the first declaration.
C8_DuplicateName_Original ==
    Constructed =>
        LET first == FirstOccurrences(optionList(cmd.cls))
        IN  cmd.optionList = [k \in 1..Len(first) |-> first[k][2]]

\* C8 amended: one entry for the name, at the position of the first
\* declaration, carrying the short letter, placeholder and description of
\* the last declaration; flags has one key per name.
C8_DuplicateName ==
    Constructed =>
        LET pairs == optionList(cmd.cls)
            first == FirstOccurrences(pairs)
        IN  /\ cmd.optionList =
                  [k \in 1..Len(first) |->
                      <<first[k][2][1],
                        pairs[LastIndexOf(pairs, first[k][2][1])][2]>>]
            /\ DOMAIN cmd.flags = {pairs[i][1] : i \in 1..Len(pairs)}

\* the later declaration of file (short g, boolean) is the one in force
C8_Witness ==
    /\ Constructed
    /\ cmd.cls = "Dup"
    /\ Len(cmd.optionList) = 2
    /\ cmd.optionList[1] = Opt(<<"f", "i", "l", "e">>, <<"g">>, <<>>, <<"t", "w", "o">>)
    /\ given = <<<<"-", "g">>>>
    /\ cmd.flags[<<"f", "i", "l", "e">>] = True

\* the width estimate of C9, and its maximum over the table
ClaimedWidth(flag, val) ==
    Len(flag) + 2
    + (IF val[1] # <<>> THEN 4 ELSE 0)
    + (IF val[1] # <<>> /\ val[2] # <<>> THEN Len(val[2]) + 1 ELSE 0)
    + (IF val[2] # <<>> THEN Len(val[2]) + 1 ELSE 0)

ClaimedPadding(od) ==
    LET widths == {ClaimedWidth(od[i][1], od[i][2]) : i \in 1..Len(od)}
    IN  CHOOSE m \in widths : \A w \in widths : w <= m

RECURSIVE SplitLines(_)
SplitLines(s) ==
    IF s = <<>>
    THEN <<>>
    ELSE LET n == index(s, "\n")
         IN  IF n = 0
             THEN <<s>>
             ELSE <<SubSeq(s, 1, n - 1)>> \o SplitLines(SubSeq(s, n + 1, Len(s)))

\* the lines of the usage text after the "Options:" header
OptionLines(self) ==
    LET head == Len(usagestr(self.cls))
                + (IF description(self.cls) # <<>>
                   THEN 2 + Len(description(self.cls)) ELSE 0)
                + Len(<<"\n", "\n", "O", "p", "t", "i", "o", "n", "s", ":", "\n">>)
    IN  SplitLines(SubSeq(self.usage, head + 1, Len(self.usage)))

\* C9: the option lines of the usage text are aligned: the description
\* starts at the same offset on every option line, padding + 2, padding
\* being the maximum width estimate; no option text is longer than padding.
C9_UsageAligned ==
    (Constructed /\ cmd.optionList # <<>>) =>
        LET od == cmd.optionList
            pad == ClaimedPadding(od)
            lines == OptionLines(cmd)
        IN  /\ Len(lines) >= Len(od)
            /\ \A i \in 1..Len(od) :
                  LET text == OptLine(od[i][1], od[i][2])
                      desc == od[i][2][3]
                  IN  /\ Len(text) <= pad
                      /\ Len(lines[i]) = pad + 2 + Len(desc)
                      /\ SubSeq(lines[i], 1, Len(text)) = text
                      /\ \A k \in (Len(text) + 1)..(pad + 2) : lines[i][k] = " "
                      /\ SubSeq(lines[i], pad + 3, Len(lines[i])) = desc

\* four option lines of different widths, the widest filling the padding
C9_Witness ==
    /\ Constructed
    /\ cmd.cls = "Main"
    /\ Len(OptionLines(cmd)) = 4
    /\ OptionLines(cmd)[2] = <<"-", "f", " ", "<", "p", "a", "t", "h", ">", ",", " ", "-", "-", "f", "i", "l", "e", "=", "<", "p", "a", "t", "h", ">", " ", " ", "u", "s", "e", " ", "f", "i", "l", "e">>
    /\ OptionLines(cmd)[3] = <<"-", "-", "f", "i", "x", " ", " ", " ", " ", " ", " ", " ", " ", " ", " ", " ", " ", " ", " ", " ", " ", " ", " ", " ", " ", " ", "f", "i", "x">>

\* the value a pair gives the declared option (flag, val)
PairValue(p, val) == IF Truthy(val[2]) THEN Str(p[2]) ELSE True

\* each pair sets only the first declared option it spells
RECURSIVE FirstMatchOnly(_, _, _)
FirstMatchOnly(flags, od, pairs) ==
    IF pairs = <<>>
    THEN flags
    ELSE LET hits == {i \in 1..Len(od) : Spells(pairs[1], od[i][1], od[i][2])}
             i == CHOOSE h \in hits : \A g \in hits : h <= g
         IN  FirstMatchOnly(
                 IF hits = {}
                 THEN flags
                 ELSE [flags EXCEPT ![od[i][1]] = PairValue(pairs[1], od[i][2])],
                 od, Tail(pairs))

\* C10 as stated: on a successful parse each (rawOption, rawValue) pair
\* sets the entry of exactly one declared option, the one found by scanning
\* the table in order, and leaves every other entry unchanged; also when
\* two long names declare the same short letter.
C10_PairSetsOne_Original ==
    (Constructed /\ cmd.error = <<>>) =>
        LET od == cmd.optionList
            pairs == TokenizerPairs(cmd, given)
        IN  /\ \A k \in 1..Len(pairs) :
                  Cardinality({i \in 1..Len(od) :
                                  Spells(pairs[k], od[i][1], od[i][2])}) = 1
            /\ cmd.flags = FirstMatchOnly([f \in Keys(od) |-> None], od, pairs)

\* C10 amended: each pair sets the entry of every declared option whose
\* short letter (single-dash token) or long name (double-dash token) equals
\* the token's spelling, and leaves every other entry unchanged: exactly
\* one option when no other declares the same short letter, all of them
\* when several do.
C10_PairSetsAllMatching ==
    (Constructed /\ cmd.error = <<>>) =>
        LET od == cmd.optionList
            pairs == TokenizerPairs(cmd, given)
            hits(k) == {i \in 1..Len(od) : Spells(pairs[k], od[i][1], od[i][2])}
            setBy(i) == {k \in 1..Len(pairs) : i \in hits(k)}
            last(i) == CHOOSE k \in setBy(i) : \A j \in setBy(i) : j <= k
        IN  /\ \A k \in 1..Len(pairs) :
                  /\ hits(k) # {}
                  /\ (\A i \in hits(k) : ShortIsUnique(od, i)) =>
                        Cardinality(hits(k)) = 1
            /\ \A i \in 1..Len(od) :
                  cmd.flags[od[i][1]] =
                      IF setBy(i) = {}
                      THEN None
                      ELSE PairValue(pairs[last(i)], od[i][2])

\* one short token sets both options that declare the letter
C10_Witness ==
    /\ Constructed
    /\ cmd.cls = "Collide"
    /\ given = <<<<"-", "x">>, <<"v">>>>
    /\ cmd.flags[<<"a", "l", "l">>] = Str(<<"v">>)
    /\ cmd.flags[<<"b", "a", "r", "e">>] = True
    /\ cmd.flags[<<"c", "u", "t">>] = None

====
